---- MODULE Spec2Model ----
(***************************************************************************)
(* Pixel Art Studio (src/src/App.jsx): the state of the PixelArtStudio     *)
(* component and its event handlers, as a state machine.                   *)
(*                                                                         *)
(* One action is one browser event together with the React render and the  *)
(* effects that follow it (React batches the state updates of one handler  *)
(* and commits them before the next event is delivered).                   *)
(*                                                                         *)
(* JavaScript values:                                                      *)
(*   - a number is a record [num, den]: den = 1 an integer, den = 2 a      *)
(*     number with fractional part 1/2, num = den = 0 is NaN;              *)
(*   - null is the string NULL, a hole / undefined array entry is the      *)
(*     string UNDEFINED; colours are "#rrggbb" strings;                    *)
(*   - arrays are sequences; index i of the code is position i + 1.        *)
(***************************************************************************)
EXTENDS Integers, Sequences, FiniteSets, TLC

VARIABLES
    size,          \* useLocalStorage("pas:size", 32)
    pixels,        \* useLocalStorage("pas:pixels", blank)
    palette,       \* useLocalStorage("pas:palette", [...])
    tool,          \* useLocalStorage("pas:tool", "pen")
    currentColor,  \* useLocalStorage("pas:currentColor", "#1f2937")
    undoStack,     \* useState([])
    redoStack,     \* useState([])
    drawing,       \* drawingRef.current
    reading,       \* FileReaders started by importJSON whose onload has not fired
    exported,      \* the file last handed to download() by exportJSON
    alertOpen,     \* alert("Invalid JSON file") is on screen (it blocks the page)
    crashed,       \* a render threw: React has unmounted the component
    strokeLen,     \* pointer-enter events handled since the last pointer-down
    downloads,     \* files handed to download() so far
    pixelSize,     \* useLocalStorage("pas:pixelSize", 16)
    showGrid,      \* useLocalStorage("pas:showGrid", true)
    storage,       \* localStorage: the value JSON.parse returns for each "pas:" key
    heap,          \* the array objects behind pixels, undoStack and redoStack
    mark           \* history variable: the buffers around the last committed action

vars == <<size, pixels, palette, tool, currentColor, undoStack, redoStack,
          drawing, reading, exported, alertOpen, crashed, strokeLen, downloads,
          pixelSize, showGrid, storage, heap, mark>>

-----------------------------------------------------------------------------
(* Bounds of the model *)

MaxHist == 2     \* record-triggering actions stop when the undo stack is this long
MaxStroke == 1   \* pointer-enter events handled in one gesture
MaxReads == 2    \* FileReaders in flight at once
MaxDownloads == 1  \* documents a session downloads
StoredSize == 2  \* the grid size a stored session starts from

-----------------------------------------------------------------------------
(* JavaScript numbers *)

Num(n) == [num |-> n, den |-> 1]
Half(n) == [num |-> 2 * n + 1, den |-> 2]
NaN == [num |-> 0, den |-> 0]

IsNaN(a) == a.den = 0
IsInteger(a) == a.den = 1

\* a < b, for numbers that are not NaN
Less(a, b) == a.num * b.den < b.num * a.den

MathMin(a, b) == IF IsNaN(a) \/ IsNaN(b) THEN NaN ELSE IF Less(b, a) THEN b ELSE a
MathMax(a, b) == IF IsNaN(a) \/ IsNaN(b) THEN NaN ELSE IF Less(a, b) THEN b ELSE a

MinSize == 2
MaxSize == 256

clamp(n, min, max) == MathMax(min, MathMin(max, n))

-----------------------------------------------------------------------------
(* parseInt on the value of the <input type="number">, a sequence of characters *)

Digits == <<"0", "1", "2", "3", "4", "5", "6", "7", "8", "9">>

IsDigit(c) == \E d \in 1..10 : Digits[d] = c
DigitVal(c) == (CHOOSE d \in 1..10 : Digits[d] = c) - 1

RECURSIVE DigitPrefix(_)
DigitPrefix(s) ==
    IF s = <<>> \/ ~IsDigit(Head(s)) THEN <<>>
    ELSE <<Head(s)>> \o DigitPrefix(Tail(s))

RECURSIVE DigitsValue(_, _)
DigitsValue(s, acc) ==
    IF s = <<>> THEN acc ELSE DigitsValue(Tail(s), 10 * acc + DigitVal(Head(s)))

parseInt(s) ==
    LET neg == s # <<>> /\ Head(s) = "-"
        body == IF s # <<>> /\ Head(s) \in {"-", "+"} THEN Tail(s) ELSE s
        ds == DigitPrefix(body)
    IN  IF ds = <<>> THEN NaN
        ELSE Num(IF neg THEN 0 - DigitsValue(ds, 0) ELSE DigitsValue(ds, 0))

-----------------------------------------------------------------------------
(* Cells and buffers *)

NULL == "null"
UNDEFINED == "undefined"
White == "#ffffff"

DefaultSize == 32
DefaultColor == "#1f2937"
DefaultPalette ==
    <<"#000000", "#ffffff", "#ef4444", "#f59e0b", "#10b981", "#3b82f6", "#8b5cf6">>
PaletteCap == 24

\* mutant: the last entry is left empty
FillButLast(n, v) == [i \in 1..n |-> IF i = n THEN NULL ELSE v]

\* Array(n).fill(v)
Fill(n, v) == [i \in 1..n |-> v]

\* Array(size * size) throws RangeError unless size * size is an array length
CanRender(sz) == IsInteger(sz) /\ sz.num >= 0

SizeSq(sz) == sz.num * sz.num

blank(sz) == Fill(SizeSq(sz), NULL)

idx(x, y) == y * size.num + x

\* a[i], undefined past the end
At(a, i) == IF i < Len(a) THEN a[i + 1] ELSE UNDEFINED

\* next = a.slice(); next[i] = v  (an assignment past the end leaves holes)
SetAt(a, i, v) ==
    [k \in 1..(IF i < Len(a) THEN Len(a) ELSE i + 1) |->
        IF k = i + 1 THEN v ELSE IF k <= Len(a) THEN a[k] ELSE UNDEFINED]

\* mutant: a second paint of the same value clears the cell
handlePaintToggle(prev, x, y, color) ==
    LET i == idx(x, y)
    IN  IF At(prev, i) = color THEN SetAt(prev, i, NULL) ELSE SetAt(prev, i, color)

handlePaint(prev, x, y, color) ==
    LET i == idx(x, y)
    IN  IF At(prev, i) = color THEN prev ELSE SetAt(prev, i, color)

\* the updater of the resize effect
ResizeEffect(prev, sz) == IF Len(prev) # SizeSq(sz) THEN blank(sz) ELSE prev

-----------------------------------------------------------------------------
(* Documents: what JSON.parse returns for the text of a file *)

JUndefined == [t |-> "undefined"]
JNull == [t |-> "null"]
JNumber(n) == [t |-> "number", n |-> n]
JString(str) == [t |-> "string", s |-> str]
JArray(a) == [t |-> "array", a |-> a]
JObject(sz, px, pal) == [t |-> "object", size |-> sz, pixels |-> px, palette |-> pal]

\* JSON.stringify writes a hole or an undefined array entry as null
Stringify(a) == [k \in 1..Len(a) |-> IF a[k] = UNDEFINED THEN NULL ELSE a[k]]

\* origin: the live <<size, pixels, palette>> a downloaded file was made from
File(name, parses, data) == [name |-> name, parses |-> parses, data |-> data, origin |-> <<>>]

NoFile == File("", FALSE, JNull)

Red == "#ef4444"

BadFiles ==
    { File("garbage.json", FALSE, JNull),
      File("null.json", TRUE, JNull),
      File("nosize.json", TRUE, JObject(JUndefined, JArray(Fill(4, NULL)), JUndefined)),
      File("strsize.json", TRUE,
           JObject(JString("2"), JArray(Fill(4, Red)), JArray(<<Red>>))),
      File("nopixels.json", TRUE, JObject(JNumber(Num(2)), JUndefined, JArray(<<Red>>))),
      File("strpixels.json", TRUE, JObject(JNumber(Num(3)), JString("x"), JUndefined)) }

GoodFiles ==
    { File("two.json", TRUE,
           JObject(JNumber(Num(2)), JArray(<<Red, NULL, NULL, NULL>>), JUndefined)),
      File("three.json", TRUE,
           JObject(JNumber(Num(3)), JArray(Fill(9, NULL)), JArray(<<Red, White, Red>>))),
      File("short.json", TRUE,
           JObject(JNumber(Num(2)), JArray(<<Red>>), JArray(<<White>>))),
      File("one.json", TRUE,
           JObject(JNumber(Num(1)), JArray(Fill(4, NULL)), JUndefined)),
      File("frac.json", TRUE,
           JObject(JNumber(Half(2)), JArray(<<>>), JArray(<<White>>))) }

Files == BadFiles \cup GoodFiles

\* the documents picked in a session that also resizes, fills and undoes: every
\* rejected one, and the accepted ones that change the size or disagree with it
\* the documents picked in a session that is reloaded
ReloadFiles == {f \in GoodFiles : f.name = "short.json"}

SessionFiles ==
    BadFiles \cup {f \in GoodFiles : f.name \in {"three.json", "short.json", "frac.json"}}

\* the condition of line 234 under which importJSON throws
Invalid(f) ==
    \/ ~f.parses
    \/ f.data.t # "object"
    \/ f.data.size.t # "number"
    \/ f.data.pixels.t # "array"

-----------------------------------------------------------------------------
(* Values the user enters *)

\* what the size field can hold: "", "3", "2.5", "-4", ".5"
TypedSizes ==
    { <<>>, <<"3">>, <<"2", ".", "5">>, <<"-", "4">>, <<".", "5">> }

\* colours chosen in the colour picker or clicked in the palette
UserColors == {DefaultColor, Red}

Tools == {"pen", "eraser", "eyedropper"}

\* the cells <<x, y>> the pointer visits; the grid renders size x size cells
Cells == {<<1, 0>>, <<0, 1>>}
Rendered(x, y) == x < size.num /\ y < size.num

-----------------------------------------------------------------------------
(* History variables *)

\* mark: what the last events did.
\*   phase  "gesture" from a pointer-down to the pointer-up, "acted" after a whole
\*          gesture, a fill or a clear, "undone" after an undo that follows directly,
\*          "redone" after a redo that follows that, "loaded" / "rejected" after a
\*          reader's onload, "reloaded" after a reload of the mounted page and
\*          "restarted" after a reload of a page whose render threw, "idle" otherwise
\*   kind   "gesture", "fill", "clear", or the name of the file loaded
\*   pre, post   the live buffer before and after the action
\*   undo0, stale   the undo stack before the action; the redo stack was not empty
\*   paint, again   the last handlePaint call <<x, y, color>> of the gesture in
\*          progress; the step just taken was a call repeating the one before it
\*   tool0  the tool that was active at the pointer-down of the gesture
\*   doc    the live <<size, pixels, palette>> the loaded file was exported from
\*   lost   the keys a reload found missing or unparseable; pre is then what the
\*          effects had written for the values live before the reload
Idle ==
    [phase |-> "idle", kind |-> "", pre |-> <<>>, post |-> <<>>, undo0 |-> <<>>,
     stale |-> FALSE, paint |-> <<>>, again |-> FALSE, doc |-> <<>>, lost |-> {},
     tool0 |-> ""]

\* the page handles events: the component is mounted and no alert blocks it
Ready == ~crashed /\ ~alertOpen

\* Buttons and fields are operated with the pointer: the mouseup or touchend that
\* ends a click reaches the window listeners (lines 122-130) before the click is
\* delivered, so drawingRef.current is false when their handlers run.
Clicked == Ready /\ ~drawing

-----------------------------------------------------------------------------
(* Array objects: store[r] is the array with reference r, live the reference
   held by pixels, undo and redo the references held by the two stacks *)

EmptyHeap == [store |-> <<>>, live |-> 0, undo |-> <<>>, redo |-> <<>>]

\* a new array becomes the live buffer: Array(n).fill(v), prev.slice(), data.pixels
Alloc(h, a) == [h EXCEPT !.store = Append(@, a), !.live = Len(h.store) + 1]

\* mutant: the updater writes into the live array
writeInPlace(h, next) == [h EXCEPT !.store[h.live] = next]

\* an updater of setPixels that returns prev, or a changed copy of prev
\* (handlePaint, the resize effect): next differs from prev exactly when it is
\* a new array
copyOnWrite(h, next) == IF next = h.store[h.live] THEN h ELSE Alloc(h, next)

\* pushHistory(pixels) keeps the reference of the live array
pushHistoryRef(h) == [h EXCEPT !.undo = Append(@, h.live), !.redo = <<>>]

\* undo and redo move references
undoRef(h) ==
    IF h.undo = <<>> THEN h
    ELSE [h EXCEPT !.redo = Append(@, h.live), !.live = h.undo[Len(h.undo)],
                   !.undo = SubSeq(@, 1, Len(@) - 1)]

redoRef(h) ==
    IF h.redo = <<>> THEN h
    ELSE [h EXCEPT !.undo = Append(@, h.live), !.live = h.redo[Len(h.redo)],
                   !.redo = SubSeq(@, 1, Len(@) - 1)]

\* garbage collection: the arrays still referenced, numbered in the order in
\* which the undo stack, the redo stack and pixels reach them
Collect(h) ==
    LET refs == h.undo \o h.redo \o <<h.live>>
        first == {k \in 1..Len(refs) : \A j \in 1..(k - 1) : refs[j] # refs[k]}
        number(r) == Cardinality({j \in first : j <= (CHOOSE k \in first : refs[k] = r)})
        at(n) == refs[CHOOSE k \in first : Cardinality({j \in first : j <= k}) = n]
    IN  [store |-> [n \in 1..Cardinality(first) |-> h.store[at(n)]],
         live |-> number(h.live),
         undo |-> [k \in 1..Len(h.undo) |-> number(h.undo[k])],
         redo |-> [k \in 1..Len(h.redo) |-> number(h.redo[k])]]

-----------------------------------------------------------------------------
(* localStorage *)

DefaultPixelSize == 16

\* what the effects of useLocalStorage (lines 39-43) write for the live values:
\* JSON.stringify of each, as JSON.parse returns it
Persisted ==
    [size |-> size, pixelSize |-> pixelSize, showGrid |-> showGrid,
     currentColor |-> currentColor, palette |-> palette, tool |-> tool,
     pixels |-> Stringify(pixels)]

\* the effects run after every render that commits; a render that throws
\* commits nothing and the keys keep what the last commit wrote
Commit == storage' = IF crashed' THEN storage ELSE Persisted'

-----------------------------------------------------------------------------
(* Initial states: the component mounts and reads localStorage *)

\* the state after the first render and its effects, given the stored grid size
\* (every other key absent: its default is used, and pixels defaults to blank)
Mounted(sz) ==
    /\ size = sz
    /\ pixels = blank(sz)
    /\ palette = DefaultPalette
    /\ tool = "pen"
    /\ currentColor = DefaultColor
    /\ undoStack = <<>>
    /\ redoStack = <<>>
    /\ drawing = FALSE
    /\ reading = <<>>
    /\ exported = NoFile
    /\ alertOpen = FALSE
    /\ crashed = FALSE
    /\ strokeLen = 0
    /\ downloads = 0
    /\ pixelSize = Num(DefaultPixelSize)
    /\ showGrid = TRUE
    /\ storage = Persisted
    /\ heap = Alloc(EmptyHeap, blank(sz))
    /\ mark = Idle

\* nothing in localStorage
InitFresh == Mounted(Num(DefaultSize))

\* localStorage holds "pas:size" = StoredSize, left by an earlier session
InitStored == Mounted(Num(StoredSize))

-----------------------------------------------------------------------------
(* History *)

\* mutant: the snapshot is pushed twice
pushUndoTwice(prev) == Append(Append(undoStack, prev), prev)

\* mutant: the redo stack is kept
pushRedoKept == redoStack

\* pushHistory(prev): the two stacks after it
pushUndo(prev) == Append(undoStack, prev)
pushRedo == <<>>

pushHistory(prev) ==
    /\ undoStack' = pushUndo(prev)
    /\ redoStack' = pushRedo

-----------------------------------------------------------------------------
(* Grid size input: onChange, then the render and the resize effect *)

SetSizeInput(typed) ==
    LET value == IF typed = <<>> THEN <<"0">> ELSE typed
        n == clamp(parseInt(value), Num(MinSize), Num(MaxSize))
    IN  /\ Clicked
        /\ size' = n
        /\ IF ~CanRender(n)
              THEN crashed' = TRUE /\ pixels' = pixels
              ELSE /\ crashed' = FALSE
                   /\ pixels' = IF n # size THEN ResizeEffect(pixels, n) ELSE pixels
        /\ mark' = Idle
        /\ UNCHANGED <<palette, tool, currentColor, undoStack, redoStack, drawing,
                       reading, exported, alertOpen, strokeLen, downloads>>
        /\ UNCHANGED <<pixelSize, showGrid>>
        /\ heap' = Collect(copyOnWrite(heap, pixels'))
        /\ Commit

-----------------------------------------------------------------------------
(* Tools and colours *)

SetTool(t) ==
    /\ Clicked
    /\ tool' = t
    /\ mark' = Idle
    /\ UNCHANGED <<size, pixels, palette, currentColor, undoStack, redoStack, drawing,
                   reading, exported, alertOpen, crashed, strokeLen, downloads>>
    /\ UNCHANGED <<pixelSize, showGrid>>
    /\ UNCHANGED heap
    /\ Commit

\* the colour picker's onChange
PickColor(c) ==
    /\ Clicked
    /\ currentColor' = c
    /\ mark' = Idle
    /\ UNCHANGED <<size, pixels, palette, tool, undoStack, redoStack, drawing,
                   reading, exported, alertOpen, crashed, strokeLen, downloads>>
    /\ UNCHANGED <<pixelSize, showGrid>>
    /\ UNCHANGED heap
    /\ Commit

\* a click on a palette swatch
ClickSwatch(c) ==
    /\ Clicked
    /\ \E k \in 1..Len(palette) : palette[k] = c
    /\ currentColor' = c
    /\ mark' = Idle
    /\ UNCHANGED <<size, pixels, palette, tool, undoStack, redoStack, drawing,
                   reading, exported, alertOpen, crashed, strokeLen, downloads>>
    /\ UNCHANGED <<pixelSize, showGrid>>
    /\ UNCHANGED heap
    /\ Commit

\* Array.from(new Set(a)): the first occurrence of each value, in order
RECURSIVE Dedup(_)
Dedup(a) ==
    IF a = <<>> THEN <<>>
    ELSE LET init == Dedup(SubSeq(a, 1, Len(a) - 1))
             last == a[Len(a)]
         IN  IF \E k \in 1..Len(init) : init[k] = last THEN init ELSE Append(init, last)

Slice(a, n) == SubSeq(a, 1, IF Len(a) < n THEN Len(a) ELSE n)

addToPalette(p, c) == Slice(Dedup(<<c>> \o p), PaletteCap)

removeFromPalette(p, c) == SelectSeq(p, LAMBDA e : e # c)

AddToPalette ==
    /\ Clicked
    /\ palette' = addToPalette(palette, currentColor)
    /\ mark' = Idle
    /\ UNCHANGED <<size, pixels, tool, currentColor, undoStack, redoStack, drawing,
                   reading, exported, alertOpen, crashed, strokeLen, downloads>>
    /\ UNCHANGED <<pixelSize, showGrid>>
    /\ UNCHANGED heap
    /\ Commit

RemoveFromPalette ==
    /\ Clicked
    /\ palette' = removeFromPalette(palette, currentColor)
    /\ mark' = Idle
    /\ UNCHANGED <<size, pixels, tool, currentColor, undoStack, redoStack, drawing,
                   reading, exported, alertOpen, crashed, strokeLen, downloads>>
    /\ UNCHANGED <<pixelSize, showGrid>>
    /\ UNCHANGED heap
    /\ Commit

-----------------------------------------------------------------------------
(* Painting *)

\* what the pen or the eraser writes; the eyedropper writes nothing
Ink == IF tool = "pen" THEN currentColor ELSE NULL

\* mutant: an empty cell is picked as it is
eyedropNoDefault(prev, x, y) == At(prev, idx(x, y))

\* pixels[idx(x, y)] ?? "#ffffff"
eyedrop(prev, x, y) ==
    IF At(prev, idx(x, y)) \in {NULL, UNDEFINED} THEN White ELSE At(prev, idx(x, y))

onPointerDown(x, y) ==
    /\ Ready
    /\ Rendered(x, y)
    /\ Len(undoStack) < MaxHist
    /\ drawing' = TRUE
    /\ pushHistory(pixels)
    /\ IF tool \in {"pen", "eraser"}
          THEN /\ pixels' = handlePaint(pixels, x, y, Ink)
               /\ UNCHANGED <<currentColor, tool>>
          ELSE /\ currentColor' = eyedrop(pixels, x, y)
               /\ tool' = "pen"
               /\ pixels' = pixels
    /\ strokeLen' = 0
    /\ mark' = [Idle EXCEPT !.phase = "gesture", !.kind = "gesture", !.pre = pixels,
                            !.undo0 = undoStack, !.stale = (redoStack # <<>>),
                            !.tool0 = tool,
                            !.paint = IF tool \in {"pen", "eraser"}
                                        THEN <<x, y, Ink>> ELSE <<>>]
    /\ UNCHANGED <<size, palette, reading, exported, alertOpen, crashed, downloads>>
    /\ UNCHANGED <<pixelSize, showGrid>>
    /\ heap' = Collect(copyOnWrite(pushHistoryRef(heap), pixels'))
    /\ Commit

onPointerEnter(x, y) ==
    /\ Ready
    /\ Rendered(x, y)
    /\ drawing => strokeLen < MaxStroke
    /\ IF ~drawing
          THEN UNCHANGED <<pixels, strokeLen>>
          ELSE /\ strokeLen' = strokeLen + 1
               /\ pixels' = IF tool \in {"pen", "eraser"}
                               THEN handlePaint(pixels, x, y, Ink) ELSE pixels
    /\ mark' = IF mark.phase = "gesture" /\ drawing /\ tool \in {"pen", "eraser"}
                  THEN [mark EXCEPT !.paint = <<x, y, Ink>>,
                                    !.again = (mark.paint = <<x, y, Ink>>)]
                  ELSE IF mark.phase = "gesture" THEN mark ELSE Idle
    /\ UNCHANGED <<size, palette, tool, currentColor, undoStack, redoStack, drawing,
                   reading, exported, alertOpen, crashed, downloads>>
    /\ UNCHANGED <<pixelSize, showGrid>>
    /\ heap' = Collect(copyOnWrite(heap, pixels'))
    /\ Commit

\* mouseup / touchend / mouseleave
onPointerUp ==
    /\ Ready
    /\ drawing' = FALSE
    /\ mark' = IF mark.phase = "gesture"
                  THEN [mark EXCEPT !.phase = "acted", !.post = pixels,
                                    !.paint = <<>>, !.again = FALSE]
                  ELSE mark
    /\ UNCHANGED <<size, pixels, palette, tool, currentColor, undoStack, redoStack,
                   reading, exported, alertOpen, crashed, strokeLen, downloads>>
    /\ UNCHANGED <<pixelSize, showGrid>>
    /\ UNCHANGED heap
    /\ Commit

clearAll ==
    /\ Clicked
    /\ Len(undoStack) < MaxHist
    /\ pushHistory(pixels)
    /\ pixels' = Fill(SizeSq(size), NULL)
    /\ mark' = [Idle EXCEPT !.phase = "acted", !.kind = "clear", !.pre = pixels,
                            !.post = pixels', !.undo0 = undoStack,
                            !.stale = (redoStack # <<>>)]
    /\ UNCHANGED <<size, palette, tool, currentColor, drawing, reading, exported,
                   alertOpen, crashed, strokeLen, downloads>>
    /\ UNCHANGED <<pixelSize, showGrid>>
    /\ heap' = Collect(Alloc(pushHistoryRef(heap), pixels'))
    /\ Commit

fillBackground ==
    /\ Clicked
    /\ Len(undoStack) < MaxHist
    /\ pushHistory(pixels)
    /\ pixels' = Fill(SizeSq(size), currentColor)
    /\ mark' = [Idle EXCEPT !.phase = "acted", !.kind = "fill", !.pre = pixels,
                            !.post = pixels', !.undo0 = undoStack,
                            !.stale = (redoStack # <<>>)]
    /\ UNCHANGED <<size, palette, tool, currentColor, drawing, reading, exported,
                   alertOpen, crashed, strokeLen, downloads>>
    /\ UNCHANGED <<pixelSize, showGrid>>
    /\ heap' = Collect(Alloc(pushHistoryRef(heap), pixels'))
    /\ Commit

-----------------------------------------------------------------------------
(* Undo and redo *)

Top(s) == s[Len(s)]
Pop(s) == SubSeq(s, 1, Len(s) - 1)

\* mutant: undo takes the oldest snapshot
undoTargetOldest(u) == u[1]

\* mutant: redo takes the oldest snapshot
redoTargetOldest(r) == r[1]

\* the snapshot undo makes live, and the one redo makes live
undoTarget(u) == Top(u)
redoTarget(r) == Top(r)

undo ==
    /\ Clicked
    /\ IF undoStack = <<>>
          THEN UNCHANGED <<undoStack, redoStack, pixels>>
          ELSE /\ redoStack' = Append(redoStack, pixels)
               /\ pixels' = undoTarget(undoStack)
               /\ undoStack' = Pop(undoStack)
    /\ mark' = IF mark.phase = "acted" THEN [mark EXCEPT !.phase = "undone"] ELSE Idle
    /\ UNCHANGED <<size, palette, tool, currentColor, drawing, reading, exported,
                   alertOpen, crashed, strokeLen, downloads>>
    /\ UNCHANGED <<pixelSize, showGrid>>
    /\ heap' = Collect(undoRef(heap))
    /\ Commit

redo ==
    /\ Clicked
    /\ IF redoStack = <<>>
          THEN UNCHANGED <<undoStack, redoStack, pixels>>
          ELSE /\ undoStack' = Append(undoStack, pixels)
               /\ pixels' = redoTarget(redoStack)
               /\ redoStack' = Pop(redoStack)
    /\ mark' = IF mark.phase = "undone" THEN [mark EXCEPT !.phase = "redone"] ELSE Idle
    /\ UNCHANGED <<size, palette, tool, currentColor, drawing, reading, exported,
                   alertOpen, crashed, strokeLen, downloads>>
    /\ UNCHANGED <<pixelSize, showGrid>>
    /\ heap' = Collect(redoRef(heap))
    /\ Commit

-----------------------------------------------------------------------------
(* Export and import *)

ExportName == "pixel-art.json"

exportJSON ==
    /\ Clicked
    /\ downloads < MaxDownloads
    /\ downloads' = downloads + 1
    /\ exported' = [name |-> ExportName, parses |-> TRUE,
                    data |-> JObject(JNumber(size), JArray(Stringify(pixels)),
                                     JArray(palette)),
                    origin |-> <<size, pixels, palette>>]
    /\ mark' = Idle
    /\ UNCHANGED <<size, pixels, palette, tool, currentColor, undoStack, redoStack,
                   drawing, reading, alertOpen, crashed, strokeLen>>
    /\ UNCHANGED <<pixelSize, showGrid>>
    /\ UNCHANGED heap
    /\ Commit

\* importJSON(file): a FileReader starts reading the chosen file
importJSON(f) ==
    /\ Clicked
    /\ f # NoFile
    /\ Len(reading) < MaxReads
    /\ reading' = Append(reading, f)
    /\ mark' = Idle
    /\ UNCHANGED <<size, pixels, palette, tool, currentColor, undoStack, redoStack,
                   drawing, exported, alertOpen, crashed, strokeLen, downloads>>
    /\ UNCHANGED <<pixelSize, showGrid>>
    /\ UNCHANGED heap
    /\ Commit

RemoveAt(s, i) == SubSeq(s, 1, i - 1) \o SubSeq(s, i + 1, Len(s))

\* the size, the pixels and the palette a valid document sets
importedSize(f) == clamp(f.data.size.n, Num(MinSize), Num(MaxSize))
importedPixels(f) == f.data.pixels.a
importedPalette(f) == IF f.data.palette.t = "array" THEN f.data.palette.a ELSE palette

\* mutant: the size is set before the pixels field is validated
importOutcomeSizeFirst(f) ==
    IF Invalid(f)
      THEN [alert |-> TRUE,
            size |-> IF f.parses /\ f.data.t = "object" /\ f.data.size.t = "number"
                       THEN clamp(f.data.size.n, Num(MinSize), Num(MaxSize)) ELSE size,
            pixels |-> pixels, palette |-> palette]
      ELSE [alert |-> FALSE, size |-> clamp(f.data.size.n, Num(MinSize), Num(MaxSize)),
            pixels |-> f.data.pixels.a,
            palette |-> IF f.data.palette.t = "array" THEN f.data.palette.a ELSE palette]

\* the try block of reader.onload: the state updates it queues, or the alert
importOutcome(f) ==
    IF Invalid(f)
      THEN [alert |-> TRUE, size |-> size, pixels |-> pixels, palette |-> palette]
      ELSE [alert |-> FALSE, size |-> importedSize(f), pixels |-> importedPixels(f),
            palette |-> importedPalette(f)]

\* reader.onload of the i-th reader in flight, then the render and the resize effect
readerOnload(i) ==
    /\ Ready
    /\ i \in 1..Len(reading)
    /\ LET f == reading[i]
           out == importOutcome(f)
       IN  /\ reading' = RemoveAt(reading, i)
           /\ alertOpen' = out.alert
           /\ size' = out.size
           /\ palette' = out.palette
           /\ IF ~CanRender(out.size)
                 THEN crashed' = TRUE /\ pixels' = pixels
                 ELSE /\ crashed' = FALSE
                      /\ pixels' = IF out.size # size
                                      THEN ResizeEffect(out.pixels, out.size)
                                      ELSE out.pixels
           /\ mark' = [Idle EXCEPT !.phase = IF out.alert THEN "rejected" ELSE "loaded",
                                   !.kind = f.name, !.doc = f.origin]
    /\ UNCHANGED <<tool, currentColor, undoStack, redoStack, drawing, exported,
                   strokeLen, downloads>>
    /\ UNCHANGED <<pixelSize, showGrid>>
    /\ heap' = IF alertOpen' \/ crashed' THEN heap ELSE Collect(Alloc(heap, pixels'))
    /\ Commit

\* the user closes the alert
dismissAlert ==
    /\ alertOpen
    /\ ~crashed
    /\ alertOpen' = FALSE
    /\ UNCHANGED <<size, pixels, palette, tool, currentColor, undoStack, redoStack,
                   drawing, reading, exported, crashed, strokeLen, downloads, mark>>
    /\ UNCHANGED <<pixelSize, showGrid>>
    /\ UNCHANGED heap
    /\ Commit

-----------------------------------------------------------------------------
(* Zoom and gridlines *)

\* the position the range input (min 6, max 32) is moved to, as its value
SliderValues == {<<"3", "2">>}

SetPixelSize(value) ==
    /\ Clicked
    /\ pixelSize' = parseInt(value)
    /\ mark' = Idle
    /\ UNCHANGED <<size, pixels, palette, tool, currentColor, undoStack, redoStack,
                   drawing, reading, exported, alertOpen, crashed, strokeLen, downloads,
                   showGrid>>
    /\ UNCHANGED heap
    /\ Commit

SetShowGrid(checked) ==
    /\ Clicked
    /\ showGrid' = checked
    /\ mark' = Idle
    /\ UNCHANGED <<size, pixels, palette, tool, currentColor, undoStack, redoStack,
                   drawing, reading, exported, alertOpen, crashed, strokeLen, downloads,
                   pixelSize>>
    /\ UNCHANGED heap
    /\ Commit

-----------------------------------------------------------------------------
(* Reload: the page is loaded again and the component mounts from localStorage *)

Keys == {"size", "pixelSize", "showGrid", "currentColor", "palette", "tool", "pixels"}

\* the keys that are missing or hold text that does not parse when the page loads
\* (with every key missing the page mounts as in InitFresh)
Lost == { {}, {"pixels"}, Keys \ {"size", "pixels"} }

\* the initialiser of useLocalStorage (lines 31-38)
Load(key, lost, initial) == IF key \in lost THEN initial ELSE storage[key]

\* the first render, then the resize effect, which also runs on mount
reload(lost) ==
    LET sz == Load("size", lost, Num(DefaultSize))
        px == Load("pixels", lost, blank(sz))
    IN  /\ ~alertOpen
        /\ size' = sz
        /\ pixelSize' = Load("pixelSize", lost, Num(DefaultPixelSize))
        /\ showGrid' = Load("showGrid", lost, TRUE)
        /\ currentColor' = Load("currentColor", lost, DefaultColor)
        /\ palette' = Load("palette", lost, DefaultPalette)
        /\ tool' = Load("tool", lost, "pen")
        /\ pixels' = ResizeEffect(px, sz)
        /\ undoStack' = <<>>
        /\ redoStack' = <<>>
        /\ drawing' = FALSE
        /\ reading' = <<>>
        /\ crashed' = FALSE
        /\ strokeLen' = 0
        /\ mark' = [Idle EXCEPT !.phase = IF crashed THEN "restarted" ELSE "reloaded",
                                !.pre = Persisted, !.post = pixels, !.lost = lost]
        /\ UNCHANGED <<exported, alertOpen, downloads>>
        /\ heap' = Collect(Alloc(EmptyHeap, pixels'))
        /\ Commit

-----------------------------------------------------------------------------
(* Specifications *)

\* An editing session on a stored grid
Next ==
    \/ \E typed \in TypedSizes : SetSizeInput(typed)
    \/ \E t \in Tools : SetTool(t)
    \/ \E c \in UserColors : PickColor(c)
    \/ \E c \in Cells : onPointerDown(c[1], c[2])
    \/ \E c \in Cells : onPointerEnter(c[1], c[2])
    \/ onPointerUp
    \/ clearAll
    \/ fillBackground
    \/ undo
    \/ redo

Spec == InitStored /\ [][Next]_vars

\* A stored session that imports documents between resizes, fills and undos
NextImport ==
    \/ \E f \in SessionFiles : importJSON(f)
    \/ \E i \in 1..MaxReads : readerOnload(i)
    \/ dismissAlert
    \/ \E typed \in TypedSizes : SetSizeInput(typed)
    \/ fillBackground
    \/ undo
    \/ redo

SpecImport == InitStored /\ [][NextImport]_vars

\* A fresh session that edits the palette and imports documents
NextPalette ==
    \/ \E c \in UserColors : PickColor(c)
    \/ \E c \in UserColors : ClickSwatch(c)
    \/ AddToPalette
    \/ RemoveFromPalette
    \/ \E f \in Files : importJSON(f)
    \/ \E i \in 1..MaxReads : readerOnload(i)
    \/ dismissAlert

SpecPalette == InitFresh /\ [][NextPalette]_vars

\* A stored session that downloads its document and imports it back
NextExport ==
    \/ exportJSON
    \/ importJSON(exported)
    \/ \E i \in 1..MaxReads : readerOnload(i)
    \/ \E typed \in TypedSizes : SetSizeInput(typed)
    \/ \E c \in Cells : onPointerDown(c[1], c[2])
    \/ onPointerUp
    \/ undo

SpecExport == InitStored /\ [][NextExport]_vars

\* A stored session that is reloaded between edits and imports
NextReload ==
    \/ \E lost \in Lost : reload(lost)
    \/ \E f \in ReloadFiles : importJSON(f)
    \/ \E i \in 1..MaxReads : readerOnload(i)
    \/ \E typed \in TypedSizes : SetSizeInput(typed)
    \/ \E value \in SliderValues : SetPixelSize(value)
    \/ \E checked \in BOOLEAN : SetShowGrid(checked)
    \/ \E t \in Tools : SetTool(t)
    \/ \E c \in Cells : onPointerDown(c[1], c[2])
    \/ onPointerUp

SpecReload == InitStored /\ [][NextReload]_vars

-----------------------------------------------------------------------------
(* Properties *)

\* C1: in every state in which the component is mounted, the live pixel buffer
\* has exactly size * size entries.
BufferLengthIsSizeSquared == ~crashed => Len(pixels) = SizeSq(size)

\* C2: an undo directly after a committed action (a whole gesture, a fill or a
\* clear) makes the buffer that was live before the action live again, and a redo
\* directly after that undo makes the buffer that was live after the action live.
UndoRedoRoundTrip ==
    /\ mark.phase = "undone" => pixels = mark.pre
    /\ mark.phase = "redone" => pixels = mark.post

UndoRedoRoundTripWitness ==
    /\ mark.phase = "redone"
    /\ mark.kind = "gesture"
    /\ mark.pre # mark.post
    /\ Len(undoStack) > 1

\* C3: right after a pointer-down, a clear or a fill (and until the next event
\* that is not part of the same gesture) the redo stack is empty, whatever it
\* held before, and a redo then changes neither the buffer nor the stacks.
RedoClearedByEdit ==
    /\ [](mark.phase \in {"gesture", "acted"} => redoStack = <<>>)
    /\ [][mark.phase \in {"gesture", "acted"} /\ redo
            => UNCHANGED <<pixels, undoStack, redoStack>>]_vars

RedoClearedByEditWitness ==
    /\ mark.phase \in {"gesture", "acted"}
    /\ mark.stale
    /\ redoStack = <<>>

\* the entries at which two buffers of the same length differ
Changed(a, b) == {k \in 1..Len(a) : a[k] # b[k]}

\* C4: a gesture (pointer-down, pointer-enters, pointer-up) adds exactly one entry
\* to the undo stack, the buffer that was live before the gesture; pointer-enter
\* and pointer-up change neither stack; one undo after the gesture makes the
\* pre-gesture buffer live again and takes that entry off.
GestureIsOneEntry ==
    /\ [](mark.kind = "gesture" /\ mark.phase \in {"gesture", "acted"}
            => undoStack = Append(mark.undo0, mark.pre) /\ redoStack = <<>>)
    /\ [](mark.kind = "gesture" /\ mark.phase = "undone"
            => pixels = mark.pre /\ undoStack = mark.undo0)
    /\ [][(onPointerUp \/ \E c \in Cells : onPointerEnter(c[1], c[2]))
            => UNCHANGED <<undoStack, redoStack>>]_vars

GestureIsOneEntryWitness ==
    /\ mark.kind = "gesture"
    /\ mark.phase = "undone"
    /\ Len(mark.pre) = Len(mark.post)
    /\ Cardinality(Changed(mark.pre, mark.post)) > 1
    /\ mark.undo0 # <<>>

\* C5: after the document exportJSON produced is loaded by importJSON, in the
\* state it was exported from or in any other, the live size, buffer and palette
\* are those that were live when it was exported.
ExportImportRoundTrip ==
    mark.phase = "loaded" /\ mark.kind = ExportName
        => <<size, pixels, palette>> = mark.doc

\* the documents C6 names: unparseable, size missing or not a number, pixels not
\* an array
Malformed(f) ==
    \/ ~f.parses
    \/ f.data.t = "object" /\ f.data.size.t # "number"
    \/ f.data.t = "object" /\ f.data.pixels.t # "array"

\* C6: loading a malformed document opens the alert and leaves the size, the
\* buffer, the palette, the tool, the current colour and both stacks as they were.
MalformedImportChangesNothing ==
    [][\A i \in 1..Len(reading) :
          readerOnload(i) /\ Malformed(reading[i])
              => /\ alertOpen'
                 /\ UNCHANGED <<size, pixels, palette, tool, currentColor,
                                undoStack, redoStack>>]_vars

MalformedImportChangesNothingWitness ==
    /\ mark.phase = "rejected"
    /\ mark.kind = "nopixels.json"
    /\ alertOpen
    /\ undoStack # <<>>
    /\ redoStack # <<>>
    /\ size # Num(2)

\* C7: the grid size is always an integer from 2 to 256, and no typed value or
\* imported size leaves the component unable to build its buffer.
SizeIsIntegerInRange ==
    /\ IsInteger(size)
    /\ MinSize <= size.num
    /\ size.num <= MaxSize
    /\ ~crashed

NoDuplicates(a) == \A j, k \in 1..Len(a) : a[j] = a[k] => j = k

\* C8: the palette never holds a colour twice and never more than 24 colours.
PaletteUniqueAndCapped == NoDuplicates(palette) /\ Len(palette) <= PaletteCap

\* C9: a change of the grid size input leaves size an integer from 2 to 256 and
\* the buffer with size * size entries: a buffer of another length is replaced
\* by an all-null buffer, a buffer of that length is kept.
ResizeSetsLength ==
    [][\A typed \in TypedSizes :
          SetSizeInput(typed)
              => /\ IsInteger(size') /\ MinSize <= size'.num /\ size'.num <= MaxSize
                 /\ Len(pixels') = SizeSq(size')
                 /\ Len(pixels) # SizeSq(size') => pixels' = Fill(SizeSq(size'), NULL)
                 /\ Len(pixels) = SizeSq(size') => pixels' = pixels]_vars

\* C10: a handlePaint call that repeats the call before it (same cell, same
\* colour or null) leaves the buffer as it is and changes neither stack.
PaintTwiceIsNoOp ==
    [][mark'.again => pixels' = pixels /\ UNCHANGED <<undoStack, redoStack>>]_vars

PaintTwiceIsNoOpWitness ==
    /\ mark.again
    /\ mark.paint[3] = Red
    /\ At(pixels, mark.paint[2] * size.num + mark.paint[1]) = Red
    /\ undoStack # <<>>

\* C11: loading a document that passes the validation of line 234 makes the
\* document's pixel array the live buffer as given (whatever its length, and
\* whether or not the size changes) and makes the document's palette the live
\* palette when it is an array, leaving the palette as it was otherwise.
ImportAppliesDocumentAsGiven ==
    [][\A i \in 1..Len(reading) :
          readerOnload(i) /\ ~Invalid(reading[i])
              => /\ pixels' = reading[i].data.pixels.a
                 /\ palette' = IF reading[i].data.palette.t = "array"
                                 THEN reading[i].data.palette.a ELSE palette]_vars

\* C12: at most one import is in flight at a time (none starts before the one
\* in flight has resolved), and an import that resolves is the earliest-started
\* one still in flight, so none started before it is left to resolve after it
\* and overwrite what it applied.
ImportsAreSerialized ==
    /\ [](Len(reading) <= 1)
    /\ [][\A i \in 1..Len(reading) : readerOnload(i) => i = 1]_vars

\* C13: a reload of the mounted page brings back, for every key that is stored
\* and parses, the value that was live just before the reload (size, pixel size,
\* gridline toggle, current colour, palette, tool, pixel buffer), and for every
\* other key its default.
ReloadRestoresLiveState ==
    [][\A lost \in Lost :
          reload(lost) /\ ~crashed
              => /\ size' = IF "size" \in lost THEN Num(DefaultSize) ELSE size
                 /\ pixelSize' = IF "pixelSize" \in lost
                                   THEN Num(DefaultPixelSize) ELSE pixelSize
                 /\ showGrid' = IF "showGrid" \in lost THEN TRUE ELSE showGrid
                 /\ currentColor' = IF "currentColor" \in lost
                                      THEN DefaultColor ELSE currentColor
                 /\ palette' = IF "palette" \in lost THEN DefaultPalette ELSE palette
                 /\ tool' = IF "tool" \in lost THEN "pen" ELSE tool
                 /\ pixels' = IF "pixels" \in lost THEN blank(size') ELSE pixels]_vars

\* C14: undo on an empty undo stack and redo on an empty redo stack change
\* neither the buffer nor the stacks; otherwise undo takes the top entry off the
\* undo stack, makes it the live buffer and puts the buffer that was live on top
\* of the redo stack, once, and redo does the same with the stacks exchanged, so
\* the two stacks together hold as many entries as before.
UndoRedoMoveOneEntry ==
    /\ [][undo => IF undoStack = <<>>
                    THEN UNCHANGED <<pixels, undoStack, redoStack>>
                    ELSE /\ pixels' = undoStack[Len(undoStack)]
                         /\ undoStack' = SubSeq(undoStack, 1, Len(undoStack) - 1)
                         /\ redoStack' = redoStack \o <<pixels>>]_vars
    /\ [][redo => IF redoStack = <<>>
                    THEN UNCHANGED <<pixels, undoStack, redoStack>>
                    ELSE /\ pixels' = redoStack[Len(redoStack)]
                         /\ redoStack' = SubSeq(redoStack, 1, Len(redoStack) - 1)
                         /\ undoStack' = undoStack \o <<pixels>>]_vars
    /\ [][undo \/ redo
            => Len(undoStack') + Len(redoStack') = Len(undoStack) + Len(redoStack)]_vars

UndoRedoMoveOneEntryWitness ==
    /\ mark.phase = "undone"
    /\ Len(undoStack) = 1
    /\ redoStack = <<mark.post>>
    /\ pixels # mark.post
    /\ pixels # undoStack[1]

\* C15: the active tool is always pen, eraser or eyedropper, and a pointer-down
\* on a cell with the eyedropper active makes pen the active tool and makes the
\* current colour the colour of that cell, or white when the cell holds none.
EyedropperPicksCellColour ==
    /\ [](tool \in {"pen", "eraser", "eyedropper"})
    /\ [][\A c \in Cells :
            onPointerDown(c[1], c[2]) /\ tool = "eyedropper"
                => /\ tool' = "pen"
                   /\ LET k == c[2] * size.num + c[1] + 1
                      IN  currentColor' =
                              IF k <= Len(pixels) /\ pixels[k] \notin {NULL, UNDEFINED}
                                THEN pixels[k] ELSE White]_vars

EyedropperPicksCellColourWitness ==
    /\ mark.phase = "gesture"
    /\ mark.tool0 = "eyedropper"
    /\ tool = "pen"
    /\ currentColor = White
    /\ \E k \in 1..Len(pixels) : pixels[k] = Red

\* C16: Fill canvas leaves a buffer of size * size entries that all hold the
\* current colour, Clear one of size * size entries that all hold null, and each
\* puts the buffer that was live before it on top of the undo stack, which grows
\* by that one entry.
FillAndClearSetEveryCell ==
    /\ [][fillBackground
            => /\ Len(pixels') = size.num * size.num
               /\ \A k \in 1..Len(pixels') : pixels'[k] = currentColor
               /\ undoStack' = undoStack \o <<pixels>>]_vars
    /\ [][clearAll
            => /\ Len(pixels') = size.num * size.num
               /\ \A k \in 1..Len(pixels') : pixels'[k] = NULL
               /\ undoStack' = undoStack \o <<pixels>>]_vars

FillAndClearSetEveryCellWitness ==
    /\ mark.phase = "acted"
    /\ mark.kind = "fill"
    /\ size = Num(3)
    /\ pixels = [k \in 1..9 |-> Red]
    /\ Len(mark.pre) = 4
    /\ undoStack = <<mark.pre>>

\* the entries of a palette other than c, in their order
Without(p, c) == SelectSeq(p, LAMBDA e : e # c)

\* C17: Add to palette makes the palette the current colour followed by the
\* entries it had, in their order, without the earlier occurrences of that
\* colour, cut to 24 entries; and adding the same colour again changes nothing.
AddPutsColourFirst ==
    /\ [][AddToPalette
            => LET q == <<currentColor>> \o Without(palette, currentColor)
               IN  palette' = SubSeq(q, 1, IF Len(q) < PaletteCap THEN Len(q)
                                                                 ELSE PaletteCap)]_vars
    /\ [][AddToPalette => addToPalette(palette', currentColor) = palette']_vars

\* C18: every array held by the undo stack or the redo stack has, cell for
\* cell, the contents the buffer had when it was pushed, whatever was painted,
\* filled, cleared, undone or redone since.
SnapshotsStayAsPushed ==
    /\ Len(heap.undo) = Len(undoStack)
    /\ Len(heap.redo) = Len(redoStack)
    /\ \A k \in 1..Len(heap.undo) : heap.store[heap.undo[k]] = undoStack[k]
    /\ \A k \in 1..Len(heap.redo) : heap.store[heap.redo[k]] = redoStack[k]

SnapshotsStayAsPushedWitness ==
    /\ mark.phase = "gesture"
    /\ strokeLen = 1
    /\ Len(undoStack) = 2
    /\ undoStack[2] = mark.pre
    /\ Len(pixels) = Len(mark.pre)
    /\ Cardinality(Changed(mark.pre, pixels)) = 2
    /\ heap.undo[2] # heap.live
    /\ heap.undo[1] # heap.undo[2]

\* C19: a paint of cell (x, y) with a colour or null (a pointer-down, or a
\* pointer-enter during a gesture, with the pen or the eraser) leaves the buffer
\* with its length, with that value at flat index y * size + x and with every
\* other entry as it was, and leaves size, palette and tool unchanged.
PaintChangesOneCell ==
    [][\A c \in Cells :
          /\ \/ onPointerDown(c[1], c[2])
             \/ drawing /\ onPointerEnter(c[1], c[2])
          /\ tool \in {"pen", "eraser"}
          => LET k == c[2] * size.num + c[1] + 1
             IN  /\ Len(pixels') = Len(pixels)
                 /\ k <= Len(pixels')
                 /\ pixels'[k] = IF tool = "pen" THEN currentColor ELSE NULL
                 /\ \A j \in 1..Len(pixels) : j # k => pixels'[j] = pixels[j]
                 /\ UNCHANGED <<size, palette, tool>>]_vars

\* C20: during a gesture that began with a pointer-down while the eyedropper
\* was the active tool, the live buffer is the buffer that was live at that
\* pointer-down, whatever cells the pointer enters before the pointer-up.
EyedropperGestureLeavesBuffer ==
    mark.phase = "gesture" /\ mark.tool0 = "eyedropper" => pixels = mark.pre

\* C21: while the component is mounted, every snapshot in the undo stack and
\* in the redo stack has size * size entries, so that undo and redo never make
\* a buffer of another grid size live.
SnapshotsHaveGridLength ==
    ~crashed =>
        /\ \A k \in 1..Len(undoStack) : Len(undoStack[k]) = SizeSq(size)
        /\ \A k \in 1..Len(redoStack) : Len(redoStack[k]) = SizeSq(size)

====
